---- MODULE Spec2Model ----
(***************************************************************************)
(* gbc-tile-convert (src/main.c): a PNG bitmap is cut into 8x8 blocks;     *)
(* a first pass collects each block's colours and assigns it one of 8      *)
(* four-colour palettes, the palettes are sorted, and a second pass        *)
(* encodes every block as a 16-byte 2bpp tile and deduplicates the tiles   *)
(* up to horizontal / vertical flips.  Finally palettes, tile data, the    *)
(* 32x32 map and the 32x32 attribute table are printed.                    *)
(*                                                                         *)
(* C arrays are modelled as sequences; At(a, i) reads C index i.           *)
(***************************************************************************)
EXTENDS Integers, Sequences, FiniteSets, TLC

MAX_TILES == 1024
MAX_PALETTES == 8
MAX(a, b) == IF a > b THEN a ELSE b

\* unsigned int data_idx: 9 / unsigned int palette_idx: 3 (struct tile)
DATA_IDX_BITS == 9
PALETTE_IDX_BITS == 3

At(arr, i) == arr[i + 1]
Put(arr, i, v) == [arr EXCEPT ![i + 1] = v]
Zeros(n) == [i \in 1..n |-> 0]

\* struct tile ret = {0}
ZeroTile == [data_idx |-> 0, palette_idx |-> 0, hflip |-> FALSE, vflip |-> FALSE]

-----------------------------------------------------------------------------
(* Colour quantisation and palettes                                        *)

\* uint16_t hex_to_gb(uint32_t hex)
hex_to_gb(hex) ==
  LET r == (hex \div 8) % 32
      g == (hex \div 2048) % 32
      b == (hex \div 524288) % 32
  IN  r + (g * 32) + (b * 1024)

\* void hex_to_palette(uint32_t hex[4], uint8_t palette[8])
hex_to_palette(hex) ==
  [n \in 1..8 |->
     LET colour == hex_to_gb(At(hex, (n - 1) \div 2))
     IN  IF (n - 1) % 2 = 0 THEN colour % 256 ELSE (colour \div 256) % 256]

\* the loop of colour_in_palette, from index i on
RECURSIVE colour_scan(_, _, _, _)
colour_scan(lo, hi, palette, i) ==
  IF i >= 4 THEN -1
  ELSE IF lo = At(palette, 2 * i) /\ hi = At(palette, 2 * i + 1) THEN i
  ELSE colour_scan(lo, hi, palette, i + 1)

\* int colour_in_palette(uint32_t hex, uint8_t palette[8])
colour_in_palette(hex, palette) ==
  LET colour == hex_to_gb(hex)
  IN  colour_scan(colour % 256, colour \div 256, palette, 0)

\* the k-loop of palette_in_list: is colour j of palette among the first
\* min(4, c_in_p) colours of slot?
slot_has(palette, j, slot, c_in_p) ==
  \E k \in 0..3 :
     /\ k < c_in_p
     /\ At(palette, 2 * j) = At(slot, 2 * k)
     /\ At(palette, 2 * j + 1) = At(slot, 2 * k + 1)

\* the j-loop of palette_in_list on one slot: colours that are missing are
\* written into the slot as they are met, before it is known whether all fit
RECURSIVE slot_try(_, _, _, _, _)
slot_try(palette, n_colours, slot, c_in_p, j) ==
  IF ~(j < 4 /\ j < n_colours)
  THEN [slot |-> slot, count |-> c_in_p, palettes_equal |-> TRUE]
  ELSE IF slot_has(palette, j, slot, c_in_p)
  THEN slot_try(palette, n_colours, slot, c_in_p, j + 1)
  ELSE IF c_in_p < 4
  THEN slot_try(palette, n_colours,
                Put(Put(slot, 2 * c_in_p, At(palette, 2 * j)),
                    2 * c_in_p + 1, At(palette, 2 * j + 1)),
                c_in_p + 1, j + 1)
  ELSE [slot |-> slot, count |-> c_in_p, palettes_equal |-> FALSE]

\* the i-loop of palette_in_list, from slot i on
RECURSIVE palette_scan(_, _, _, _, _)
palette_scan(palette, n_colours, list, colours_in_palettes, i) ==
  IF i >= MAX_PALETTES
  THEN [ret |-> -1, list |-> list, colours_in_palettes |-> colours_in_palettes]
  ELSE LET r  == slot_try(palette, n_colours, At(list, i),
                          At(colours_in_palettes, i), 0)
           l2 == Put(list, i, r.slot)
           c2 == Put(colours_in_palettes, i, r.count)
       IN  IF r.palettes_equal
           THEN [ret |-> i, list |-> l2, colours_in_palettes |-> c2]
           ELSE palette_scan(palette, n_colours, l2, c2, i + 1)

\* int palette_in_list(palette, n_colours, list, colours_in_palettes)
palette_in_list(palette, n_colours, list, colours_in_palettes) ==
  palette_scan(palette, n_colours, list, colours_in_palettes, 0)

\* the per-colour sum computed inside cmp from the two bytes of a colour
cmp_sum(lo, hi) ==
  LET r == lo % 32
      g == ((lo % 128) \div 32) + ((hi % 4) * 8)
      b == (hi % 128) \div 4
  IN  r + b + g

\* int cmp(const void *a, const void *b), a and b two-byte colours
cmp(a, b) == cmp_sum(a[1], a[2]) - cmp_sum(b[1], b[2])

PaletteColour(palette, i) == <<At(palette, 2 * i), At(palette, 2 * i + 1)>>

Perms4 == {p \in [0..3 -> 0..3] : \A i, j \in 0..3 : i # j => p[i] # p[j]}

\* void sort_palette(uint8_t palette[8]): qsort leaves the order of elements
\* that compare equal unspecified, so every arrangement that is ordered by
\* cmp is a possible result
sort_palette(palette) ==
  {q \in {[n \in 1..8 |-> At(palette, 2 * p[(n - 1) \div 2] + ((n - 1) % 2))] :
            p \in Perms4} :
     \A i, j \in 0..3 :
        i < j => cmp(PaletteColour(q, i), PaletteColour(q, j)) <= 0}

-----------------------------------------------------------------------------
(* Tiles: flips and the tile table                                         *)

\* one iteration of the b-loop of flip_tile_horizontal on one byte:
\* bits b and 7 - b change places
swap_bits(v, b) ==
  LET tmp1 == (v \div (2 ^ b)) % 2
      tmp2 == (v \div (2 ^ (7 - b))) % 2
      cleared == v - (tmp1 * (2 ^ b)) - (tmp2 * (2 ^ (7 - b)))
  IN  cleared + (tmp1 * (2 ^ (7 - b))) + (tmp2 * (2 ^ b))

\* the b-loop of flip_tile_horizontal, b = 0..3
flip_byte(v) == swap_bits(swap_bits(swap_bits(swap_bits(v, 0), 1), 2), 3)

\* void flip_tile_horizontal(uint8_t tile[16])
flip_tile_horizontal(tile) == [n \in 1..16 |-> flip_byte(tile[n])]

\* Mutation of flip_tile_vertical: the 16 bytes reversed one by one, as if
\* tmp were an array of bytes, not of two-byte rows.
flip_tile_vertical_bytewise(tile) == [n \in 1..16 |-> tile[17 - n]]

\* void flip_tile_vertical(uint8_t tile[16]): the 8 uint16_t rows reversed
flip_tile_vertical(tile) ==
  [n \in 1..16 |-> At(tile, 2 * (7 - ((n - 1) \div 2)) + ((n - 1) % 2))]

\* bool tiles_equal(const uint8_t a[16], const uint8_t b[16])
tiles_equal(a, b) == \A i \in 0..15 : At(a, i) = At(b, i)

\* The values tmp takes in one iteration of the loop of tile_in_list:
\* the tile, flipped horizontally, flipped back and vertically, and flipped
\* horizontally again.  tmp is copied afresh from tile in every iteration,
\* so the four values are the same for every entry.
tile_views(tile) ==
  LET h  == flip_tile_horizontal(tile)
      v  == flip_tile_vertical(flip_tile_horizontal(h))
      hv == flip_tile_horizontal(v)
  IN  <<tile, h, v, hv>>

\* Mutation of tile_probe: the second test sets vflip where it should set
\* hflip.
tile_probe_wrong_flag(views, entry) ==
  IF tiles_equal(views[1], entry)
  THEN [found |-> TRUE, hflip |-> FALSE, vflip |-> FALSE]
  ELSE IF tiles_equal(views[2], entry)
  THEN [found |-> TRUE, hflip |-> FALSE, vflip |-> TRUE]
  ELSE IF tiles_equal(views[3], entry)
  THEN [found |-> TRUE, hflip |-> FALSE, vflip |-> TRUE]
  ELSE IF tiles_equal(views[4], entry)
  THEN [found |-> TRUE, hflip |-> TRUE, vflip |-> TRUE]
  ELSE [found |-> FALSE, hflip |-> FALSE, vflip |-> FALSE]

\* the four tests of one iteration of the loop of tile_in_list
tile_probe(views, entry) ==
  IF tiles_equal(views[1], entry)
  THEN [found |-> TRUE, hflip |-> FALSE, vflip |-> FALSE]
  ELSE IF tiles_equal(views[2], entry)
  THEN [found |-> TRUE, hflip |-> TRUE, vflip |-> FALSE]
  ELSE IF tiles_equal(views[3], entry)
  THEN [found |-> TRUE, hflip |-> FALSE, vflip |-> TRUE]
  ELSE IF tiles_equal(views[4], entry)
  THEN [found |-> TRUE, hflip |-> TRUE, vflip |-> TRUE]
  ELSE [found |-> FALSE, hflip |-> FALSE, vflip |-> FALSE]

\* tile_data holds the entries written so far; the rest of the calloc'ed
\* array is zero
TileEntry(list, i) == IF i < Len(list) THEN At(list, i) ELSE Zeros(16)

\* memcpy(&list[16 * n_tiles], tile, 16)
StoreTile(list, i, tile) ==
  IF i < Len(list) THEN Put(list, i, tile)
  ELSE list \o [k \in 1..(i - Len(list)) |-> Zeros(16)] \o <<tile>>

\* assignment to the bit-field data_idx
DataIdx(v) == v % (2 ^ DATA_IDX_BITS)

\* Mutation of tile_hits: the loop stops one entry early (i < n_tiles - 1).
tile_hits_one_short(views, list, n_tiles) ==
  {i \in 0..(n_tiles - 2) :
     (IF tiles_equal(views[1], TileEntry(list, i)) THEN TRUE
      ELSE IF tiles_equal(views[2], TileEntry(list, i)) THEN TRUE
      ELSE IF tiles_equal(views[3], TileEntry(list, i)) THEN TRUE
      ELSE tiles_equal(views[4], TileEntry(list, i)))}

\* the entries i < n_tiles that pass one of the four tests
tile_hits(views, list, n_tiles) ==
  {i \in 0..(n_tiles - 1) : tile_probe(views, TileEntry(list, i)).found}

\* the loop of tile_in_list and what follows it, tmp's four values given:
\* the loop stops at the first entry that passes a test; ret is the
\* returned struct, list the tile table after the call
tile_lookup(tile, views, list, n_tiles) ==
  LET hits == tile_hits(views, list, n_tiles)
  IN  IF hits # {}
      THEN LET i == CHOOSE x \in hits : \A y \in hits : x <= y
               r == tile_probe(views, TileEntry(list, i))
           IN  [ret  |-> [ZeroTile EXCEPT !.data_idx = DataIdx(i),
                                          !.hflip = r.hflip,
                                          !.vflip = r.vflip],
                list |-> list]
      ELSE [ret  |-> [ZeroTile EXCEPT !.data_idx = DataIdx(n_tiles)],
            list |-> StoreTile(list, n_tiles, tile)]

\* struct tile tile_in_list(tile, list, n_tiles)
\* (the set binds views to a value, computed once a call)
tile_in_list(tile, list, n_tiles) ==
  CHOOSE r \in {tile_lookup(tile, views, list, n_tiles) :
                  views \in {tile_views(tile)}} : TRUE

-----------------------------------------------------------------------------
(* Per-block work of main                                                  *)

\* the i-loop searching px among colours[0..3], from index i on
RECURSIVE colour_index_from(_, _, _)
colour_index_from(px, colours, i) ==
  IF i >= 4 THEN -1
  ELSE IF px = At(colours, i) THEN i
  ELSE colour_index_from(px, colours, i + 1)

\* int c_idx = -1; for (i...) if (px == colours[i]) { c_idx = i; break; }
colour_index(px, colours) == colour_index_from(px, colours, 0)

\* the y/x loops collecting the colours of a block, from pixel p = 8y + x on
RECURSIVE scan_block(_, _, _, _, _, _)
scan_block(data, width, base_idx, colours, n_colours, p) ==
  IF p = 64
  THEN [err |-> FALSE, colours |-> colours, n_colours |-> n_colours, px |-> 0]
  ELSE LET px == At(data, base_idx + ((p \div 8) * width) + (p % 8))
       IN  IF colour_index(px, colours) >= 0
           THEN scan_block(data, width, base_idx, colours, n_colours, p + 1)
           ELSE IF n_colours = 4
           THEN [err |-> TRUE, colours |-> colours, n_colours |-> n_colours,
                 px |-> px]
           ELSE scan_block(data, width, base_idx,
                           Put(colours, n_colours, px), n_colours + 1, p + 1)

\* uint32_t colours[4] = {bitmap.data[base_idx]}; int n_colours = 1; loops
block_colours(bm, x, y) ==
  LET base_idx == (8 * y * bm.width) + (8 * x)
  IN  scan_block(bm.data, bm.width, base_idx,
                 <<At(bm.data, base_idx), 0, 0, 0>>, 1, 0)

\* the x-loop of the encoder: lower and upper are uint8_t shifted left and
\* or-ed with bit 0 and bit 1 of c_idx (c_idx = -1 has both bits set)
RECURSIVE row_loop(_, _, _, _, _, _)
row_loop(data, row_idx, palette, x, lower, upper) ==
  IF x = 8 THEN <<lower, upper>>
  ELSE LET c_idx == colour_in_palette(At(data, row_idx + x), palette)
       IN  row_loop(data, row_idx, palette, x + 1,
                    ((lower * 2) % 256) + (c_idx % 2),
                    ((upper * 2) % 256) + ((c_idx \div 2) % 2))

\* uint8_t cur_data[16] of the block at (x, y) under palette
encode_block(bm, x, y, palette) ==
  LET base_idx == (8 * y * bm.width) + (8 * x)
      rows     == [r \in 0..7 |->
                     row_loop(bm.data, base_idx + (r * bm.width), palette, 0, 0, 0)]
  IN  [n \in 1..16 |-> rows[(n - 1) \div 2][((n - 1) % 2) + 1]]

-----------------------------------------------------------------------------
(* The state of main                                                       *)

VARIABLES
  bitmap,                    \* struct bitmap returned by load_png
  pc,                        \* where main is: "load", "pass1", "pass2", "done", "exit_failure"
  tx, ty,                    \* the block the current loop is at
  tiles,                     \* struct tile *tiles, by cell 32 * ty + tx
  tile_data,                 \* uint8_t *tile_data, 16 bytes per entry
  n_tiles,
  palettes,                  \* uint8_t palettes[MAX_PALETTES][8]
  used_colours_in_palettes,
  n_palettes,
  p_idx,                     \* what palette_in_list returned last
  cur_data,                  \* uint8_t cur_data[16] of the block encoded last
  t,                         \* struct tile t returned by tile_in_list last
  err,                       \* what was written to stderr before exit(EXIT_FAILURE)
  out                        \* what was written to stdout: the four tables

vars == <<bitmap, pc, tx, ty, tiles, tile_data, n_tiles, palettes,
          used_colours_in_palettes, n_palettes, p_idx, cur_data, t, err, out>>

\* tiles is calloc'ed: a cell never written reads as zero
TileCell(cells, i) == IF i \in DOMAIN cells THEN cells[i] ELSE ZeroTile
SetCell(cells, i, rec) ==
  [j \in (DOMAIN cells) \cup {i} |-> IF j = i THEN rec ELSE cells[j]]

\* assignment to the bit-field palette_idx
PaletteIdx(v) == v % (2 ^ PALETTE_IDX_BITS)

WidthBlocks == bitmap.width \div 8
HeightBlocks == bitmap.height \div 8

\* the condition of the nested ty/tx loops
InLoop == ty < HeightBlocks /\ tx < WidthBlocks

\* tx++ and, at the end of a row of blocks, ty++
Advance ==
  IF tx + 1 < WidthBlocks
  THEN tx' = tx + 1 /\ ty' = ty
  ELSE tx' = 0 /\ ty' = ty + 1

\* the state main starts its loops from
Start(bm) ==
  /\ bitmap = bm
  /\ pc = "load"
  /\ tx = 0 /\ ty = 0
  /\ tiles = <<>>
  /\ tile_data = <<>>
  /\ n_tiles = 0
  /\ palettes = [i \in 1..MAX_PALETTES |-> Zeros(8)]
  /\ used_colours_in_palettes = Zeros(MAX_PALETTES)
  /\ n_palettes = 0
  /\ p_idx = 0
  /\ cur_data = Zeros(16)
  /\ t = ZeroTile
  /\ err = <<>>
  /\ out = <<>>

\* the test of width and height
CheckSize ==
  /\ pc = "load"
  /\ IF 8 * (bitmap.width \div 8) # bitmap.width
        \/ 8 * (bitmap.height \div 8) # bitmap.height
     THEN /\ pc' = "exit_failure"
          /\ err' = [kind |-> "size"]
     ELSE /\ pc' = "pass1"
          /\ err' = err
  /\ UNCHANGED <<bitmap, tx, ty, tiles, tile_data, n_tiles, palettes,
                 used_colours_in_palettes, n_palettes, p_idx, cur_data, t, out>>

\* one iteration of the first ty/tx loop
Pass1Block ==
  /\ pc = "pass1"
  /\ InLoop
  /\ \E c \in {block_colours(bitmap, tx, ty)} :
       IF c.err
       THEN /\ pc' = "exit_failure"
            /\ err' = [kind |-> "colours", tx |-> tx, ty |-> ty,
                       colours |-> c.colours, px |-> c.px]
            /\ UNCHANGED <<tx, ty, tiles, palettes, used_colours_in_palettes,
                           n_palettes, p_idx>>
       ELSE \E r \in {palette_in_list(hex_to_palette(c.colours), c.n_colours,
                                       palettes, used_colours_in_palettes)} :
              /\ palettes' = r.list
              /\ used_colours_in_palettes' = r.colours_in_palettes
              /\ p_idx' = r.ret
              /\ tiles' = SetCell(tiles, 32 * ty + tx,
                            [TileCell(tiles, 32 * ty + tx)
                               EXCEPT !.palette_idx = PaletteIdx(r.ret)])
              /\ n_palettes' = MAX(n_palettes, r.ret + 1)
              /\ Advance
              /\ UNCHANGED <<pc, err>>
  /\ UNCHANGED <<bitmap, tile_data, n_tiles, cur_data, t, out>>

\* the possible results of sorting palettes 0 .. n - 1
RECURSIVE sort_all(_, _)
sort_all(list, n) ==
  IF n = 0 THEN {list}
  ELSE UNION {{Put(l, n - 1, q) : q \in sort_palette(At(l, n - 1))} :
                l \in sort_all(list, n - 1)}

\* the loop calling sort_palette, run when the first ty/tx loop has ended
SortPalettes ==
  /\ pc = "pass1"
  /\ ~InLoop
  /\ palettes' \in sort_all(palettes, n_palettes)
  /\ pc' = "pass2"
  /\ tx' = 0 /\ ty' = 0
  /\ UNCHANGED <<bitmap, tiles, tile_data, n_tiles, used_colours_in_palettes,
                 n_palettes, p_idx, cur_data, t, err, out>>

\* the call of tile_in_list on the encoded block and what main stores of it
Dedupe(data) ==
  \E r \in {tile_in_list(data, tile_data, n_tiles)} :
     /\ cur_data' = data
     /\ t' = r.ret
     /\ tile_data' = r.list
     /\ tiles' = SetCell(tiles, 32 * ty + tx,
                   [TileCell(tiles, 32 * ty + tx)
                      EXCEPT !.data_idx = r.ret.data_idx,
                             !.hflip = r.ret.hflip,
                             !.vflip = r.ret.vflip])
     /\ n_tiles' = MAX(n_tiles, r.ret.data_idx + 1)

\* one iteration of the second ty/tx loop
Pass2Block ==
  /\ pc = "pass2"
  /\ InLoop
  /\ \E data \in {encode_block(bitmap, tx, ty,
                   At(palettes, TileCell(tiles, 32 * ty + tx).palette_idx))} :
       Dedupe(data)
  /\ Advance
  /\ UNCHANGED <<bitmap, pc, palettes, used_colours_in_palettes, n_palettes,
                 p_idx, err, out>>

\* the printf loops, run when the second ty/tx loop has ended
Emit ==
  /\ pc = "pass2"
  /\ ~InLoop
  /\ out' = [palettes   |-> SubSeq(palettes, 1, n_palettes),
             tile_data  |-> [i \in 1..n_tiles |-> TileEntry(tile_data, i - 1)],
             map        |-> [c \in 1..(32 * 32) |->
                               TileCell(tiles, c - 1).data_idx + 128],
             attributes |-> [c \in 1..(32 * 32) |->
                               LET cell == TileCell(tiles, c - 1)
                               IN  cell.palette_idx
                                   + (IF cell.hflip THEN 32 ELSE 0)
                                   + (IF cell.vflip THEN 64 ELSE 0)],
             found      |-> n_tiles]
  /\ pc' = "done"
  /\ UNCHANGED <<bitmap, tx, ty, tiles, tile_data, n_tiles, palettes,
                 used_colours_in_palettes, n_palettes, p_idx, cur_data, t, err>>

Next == CheckSize \/ Pass1Block \/ SortPalettes \/ Pass2Block \/ Emit

-----------------------------------------------------------------------------
(* Bitmaps load_png can return                                             *)

\* four bytes R, G, B, A of a pixel read as a little-endian uint32_t
RGBA(r, g, b, a) == r + (256 * g) + (65536 * b) + (16777216 * a)

Clear  == RGBA(0, 0, 0, 0)
Black  == RGBA(0, 0, 0, 127)
Red    == RGBA(8, 0, 0, 127)
Red2   == RGBA(9, 0, 0, 127)
Green3 == RGBA(0, 24, 0, 127)
Green4 == RGBA(0, 32, 0, 127)
Blue   == RGBA(0, 0, 16, 127)
White  == RGBA(255, 255, 255, 127)
Yellow == RGBA(8, 8, 0, 127)

\* an 8x8 block, row by row: prefix, then fill
Blk(prefix, fill) ==
  [p \in 1..64 |-> IF p <= Len(prefix) THEN prefix[p] ELSE fill]

\* the block seen in a mirror: left-right, top-bottom
HMirror(block) == [p \in 1..64 |-> At(block, (8 * ((p - 1) \div 8)) + (7 - ((p - 1) % 8)))]
VMirror(block) == [p \in 1..64 |-> At(block, (8 * (7 - ((p - 1) \div 8))) + ((p - 1) % 8))]

\* the bitmap of wb x hb blocks whose block (x, y) is blocks[wb * y + x + 1]
ImageOf(blocks, wb, hb) ==
  [width  |-> 8 * wb,
   height |-> 8 * hb,
   data   |-> [i \in 1..(64 * wb * hb) |->
                 LET row == (i - 1) \div (8 * wb)
                     col == (i - 1) % (8 * wb)
                 IN  At(At(blocks, (wb * (row \div 8)) + (col \div 8)),
                        (8 * (row % 8)) + (col % 8))]]

RowImage(blocks) == ImageOf(blocks, Len(blocks), 1)
ColumnImage(blocks) == ImageOf(blocks, 1, Len(blocks))

\* load_png failed: struct bitmap bitmap = {0}
NoImage == [width |-> 0, height |-> 0, data |-> <<>>]

\* a bitmap whose width is no multiple of 8
OddImage == [width |-> 4, height |-> 8, data |-> [i \in 1..32 |-> Black]]

SeqsUpTo(S, n) == UNION {[1..k -> S] : k \in 1..n}

MaxBlocks == 3

Blocks ==
  { Blk(<<>>, Black),
    Blk(<<>>, Red2),
    Blk(<<Red, Green4>>, Red),
    HMirror(Blk(<<Red, Green4>>, Red)),
    Blk(<<Green3, Blue, White>>, Green3),
    Blk(<<Red, Green4, Green3, Blue>>, Red),
    Blk(<<Red>>, Clear) }

Images == {RowImage(bs) : bs \in SeqsUpTo(Blocks, MaxBlocks)} \cup {NoImage, OddImage}

Init == \E bm \in Images : Start(bm)

Spec == Init /\ [][Next]_vars

-----------------------------------------------------------------------------
(* Single blocks: every arrangement of distinct pixel values at the start  *)
(* of a block, the rest of the block repeating its first pixel             *)

MaxPrefix == 6

BlockPixels == {Clear, Red, Red2, Green4, Blue, White}

Prefixes ==
  {s \in SeqsUpTo(BlockPixels, MaxPrefix) :
     \A i, j \in 1..Len(s) : i # j => s[i] # s[j]}

BlockImages == {RowImage(<<Blk(s, s[1])>>) : s \in Prefixes}

InitBlock == \E bm \in BlockImages : Start(bm)

SpecBlock == InitBlock /\ [][Next]_vars

-----------------------------------------------------------------------------
(* Many palettes: columns of blocks of four colours each, no two blocks    *)
(* with the same four                                                      *)

ExhaustLen == 9

Six == <<Red, Green3, Green4, Blue, White, Yellow>>

Quads ==
  << <<1, 2, 3, 4>>, <<1, 2, 3, 5>>, <<1, 2, 3, 6>>, <<1, 2, 4, 5>>,
     <<1, 2, 4, 6>>, <<1, 2, 5, 6>>, <<1, 3, 4, 5>>, <<1, 3, 4, 6>>,
     <<1, 3, 5, 6>>, <<1, 4, 5, 6>>, <<2, 3, 4, 5>>, <<2, 3, 4, 6>>,
     <<2, 3, 5, 6>>, <<2, 4, 5, 6>>, <<3, 4, 5, 6>> >>

QuadBlock(k) == Blk([i \in 1..4 |-> Six[Quads[k][i]]], Six[Quads[k][1]])

ExhaustImages ==
  {ColumnImage([k \in 1..(j - i + 1) |-> QuadBlock(i + k - 1)]) :
     i \in 1..ExhaustLen, j \in 1..ExhaustLen} \ {ColumnImage(<<>>)}

InitExhaust == \E bm \in ExhaustImages : Start(bm)

SpecExhaust == InitExhaust /\ [][Next]_vars

-----------------------------------------------------------------------------
(* Mirrored blocks: rows of two-colour blocks taken from a family that is  *)
(* closed under both mirrors                                               *)

MaxMirrorBlocks == 2

\* the block that is Blue at the pixels (row-major, 1..64) in marks, else Red
Marked(marks) == [p \in 1..64 |-> IF p \in marks THEN Blue ELSE Red]

Orbit(block) == {block, HMirror(block), VMirror(block), HMirror(VMirror(block))}

MirrorBlocks ==
  Orbit(Marked({2})) \cup Orbit(Marked({4, 5})) \cup Orbit(Marked({1, 57}))
    \cup Orbit(Marked({1, 64})) \cup Orbit(Marked({}))

MirrorImages == {RowImage(bs) : bs \in SeqsUpTo(MirrorBlocks, MaxMirrorBlocks)}

InitMirror == \E bm \in MirrorImages : Start(bm)

SpecMirror == InitMirror /\ [][Next]_vars

-----------------------------------------------------------------------------
(* The second loop on a bitmap of 32 x FillRows blocks that all encode to  *)
(* different tiles.  The pixels are left out: the encoded bytes of block k *)
(* are given directly, as a two-coloured block under a sorted palette      *)
(* would encode.                                                           *)

FillRows == 17

\* lower plane: pixel 0 of row 0 set, k written in rows 1 and 2; no flip of
\* one of these tiles is another of them
FillTile(k) ==
  [n \in 1..16 |->
     IF n = 1 THEN 128
     ELSE IF n = 3 THEN k % 128
     ELSE IF n = 5 THEN k \div 128
     ELSE 0]

FillImage == [width |-> 256, height |-> 8 * FillRows, data |-> <<>>]

\* one iteration of the second ty/tx loop, the encoder's result given
Pass2Tile ==
  /\ pc = "pass2"
  /\ InLoop
  /\ \E data \in {FillTile(32 * ty + tx)} : Dedupe(data)
  /\ Advance
  /\ UNCHANGED <<bitmap, pc, palettes, used_colours_in_palettes, n_palettes,
                 p_idx, err, out>>

InitFill ==
  /\ bitmap = FillImage
  /\ pc = "pass2"
  /\ tx = 0 /\ ty = 0
  /\ tiles = <<>>
  /\ tile_data = <<>>
  /\ n_tiles = 0
  /\ palettes = [i \in 1..MAX_PALETTES |-> Zeros(8)]
  /\ used_colours_in_palettes = Zeros(MAX_PALETTES)
  /\ n_palettes = 0
  /\ p_idx = 0
  /\ cur_data = Zeros(16)
  /\ t = ZeroTile
  /\ err = <<>>
  /\ out = <<>>

NextFill == Pass2Tile \/ Emit

SpecFill == InitFill /\ [][NextFill]_vars

-----------------------------------------------------------------------------
(* What the properties are stated with: the specification's own notions    *)
(* of a native colour, of a block and of the two mirrors of a tile         *)

\* the 15-bit colour of a pixel: the top five bits of its R, G and B bytes
Quantize(px) ==
  ((px % 256) \div 8)
    + (32 * (((px \div 256) % 256) \div 8))
    + (1024 * (((px \div 65536) % 256) \div 8))

\* blocks are numbered row by row; block k is at (BlockX(k), BlockY(k))
NBlocks == WidthBlocks * HeightBlocks
BlockX(k) == k % WidthBlocks
BlockY(k) == k \div WidthBlocks
Pixel(k, x, y) ==
  At(bitmap.data, (((8 * BlockY(k)) + y) * bitmap.width) + (8 * BlockX(k)) + x)
BlockContent(k) == [p \in 0..63 |-> Pixel(k, p % 8, p \div 8)]
BlockValues(k) == {Pixel(k, p % 8, p \div 8) : p \in 0..63}
Cell(k) == TileCell(tiles, (32 * BlockY(k)) + BlockX(k))

\* the number of blocks the running loop has gone over
Processed == (ty * WidthBlocks) + tx

\* colour i of a palette as a 15-bit number, and the sum of its channels
StoredColour(palette, i) == At(palette, 2 * i) + (256 * At(palette, (2 * i) + 1))
ChannelSum(c) == (c % 32) + ((c \div 32) % 32) + ((c \div 1024) % 32)

\* a byte with its bits in reverse order
ReverseBits(v) ==
  LET bit(k) == (v \div (2 ^ k)) % 2
  IN  (128 * bit(0)) + (64 * bit(1)) + (32 * bit(2)) + (16 * bit(3))
        + (8 * bit(4)) + (4 * bit(5)) + (2 * bit(6)) + bit(7)

\* the two rows' bytes of row r of a tile, r = 0..7
RowPair(tile, r) == <<tile[(2 * r) + 1], tile[(2 * r) + 2]>>

TileMirrorH(tile) == [n \in 1..16 |-> ReverseBits(tile[n])]
TileMirrorV(tile) ==
  RowPair(tile, 7) \o RowPair(tile, 6) \o RowPair(tile, 5) \o RowPair(tile, 4)
    \o RowPair(tile, 3) \o RowPair(tile, 2) \o RowPair(tile, 1) \o RowPair(tile, 0)
MirrorClass(tile) ==
  {tile, TileMirrorH(tile), TileMirrorV(tile), TileMirrorH(TileMirrorV(tile))}

-----------------------------------------------------------------------------
(* The properties                                                          *)

\* C1: when palette_in_list finds no slot for a block (it returns -1), the
\* run ends in a fatal error: main is at exit(EXIT_FAILURE) and has printed
\* none of the tables.
C1_AllocationFailureIsFatal ==
  p_idx = -1 => (pc = "exit_failure" /\ out = <<>>)

\* C2: for the block encoded last and every pixel of it, the 2-bit index
\* read from the block's 16 bytes (bit 0 from the lower byte of the pixel's
\* row, bit 1 from the upper byte, leftmost pixel in the top bit) selects,
\* in the block's palette, the native colour of the pixel.
C2_RoundTrip ==
  (pc = "pass2" /\ Processed > 0) =>
     LET k       == Processed - 1
         palette == At(palettes, Cell(k).palette_idx)
     IN  \A x, y \in 0..7 :
            LET bit0 == (At(cur_data, 2 * y) \div (2 ^ (7 - x))) % 2
                bit1 == (At(cur_data, (2 * y) + 1) \div (2 ^ (7 - x))) % 2
            IN  StoredColour(palette, bit0 + (2 * bit1)) = Quantize(Pixel(k, x, y))

\* C3: no two of the first n_tiles entries of the tile table are equal, or
\* equal after a horizontal mirror, a vertical mirror or both.
C3_TableEntriesMirrorDistinct ==
  \A i, j \in 0..(n_tiles - 1) :
     i < j => TileEntry(tile_data, j) \notin MirrorClass(TileEntry(tile_data, i))

\* C3's case: the table holds two entries when the run has ended.
C3_Witness == pc = "done" /\ n_tiles = 2

\* C4: the table entry at the returned index, mirrored horizontally if hflip
\* is set and vertically if vflip is set, is the candidate tile.
C4_FlagsReproduceCandidate ==
  (pc = "pass2" /\ Processed > 0) =>
     LET e == TileEntry(tile_data, t.data_idx)
         h == IF t.hflip THEN TileMirrorH(e) ELSE e
     IN  (IF t.vflip THEN TileMirrorV(h) ELSE h) = cur_data

\* C5: when the run has ended, two blocks with the same pixels have the same
\* palette index, tile index and flip flags in their map cells.
C5_SameBlockSameCell ==
  pc = "done" =>
     \A i, j \in 0..(NBlocks - 1) :
        BlockContent(i) = BlockContent(j) => Cell(i) = Cell(j)

\* C5's case: a run has ended on an image with two equal blocks and a
\* different block between them.
C5_Witness ==
  /\ pc = "done"
  /\ \E i, j \in 0..(NBlocks - 1) :
        /\ i + 1 < j
        /\ BlockContent(i) = BlockContent(j)
        /\ BlockContent(i + 1) # BlockContent(i)

\* C6: the colour loop ends in the capacity error exactly for the blocks
\* with five or more distinct pixel values, and the error names five
\* distinct values of the block.
C6_CapacityErrorIffFiveValues ==
  /\ (pc = "exit_failure" /\ err.kind = "colours") =>
        LET k     == (err.ty * WidthBlocks) + err.tx
            named == {err.colours[i] : i \in 1..4} \cup {err.px}
        IN  /\ Cardinality(BlockValues(k)) >= 5
            /\ Cardinality(named) = 5
            /\ named \subseteq BlockValues(k)
  /\ \A k \in 0..(NBlocks - 1) :
        (\/ pc = "pass1" /\ k < Processed
         \/ pc \in {"pass2", "done"})
           => Cardinality(BlockValues(k)) <= 4

\* C7: the step that sorts the palettes leaves every used palette in
\* non-decreasing order of R + G + B and with the colours it had before.
C7_NormalizerSortsBySum ==
  [][(pc = "pass1" /\ pc' = "pass2") =>
       \A p \in 0..(n_palettes - 1) :
          /\ \A i \in 0..2 :
                ChannelSum(StoredColour(At(palettes', p), i))
                  <= ChannelSum(StoredColour(At(palettes', p), i + 1))
          /\ \A c \in {StoredColour(At(palettes, p), i) : i \in 0..3} :
                Cardinality({i \in 0..3 : StoredColour(At(palettes, p), i) = c})
                  = Cardinality({i \in 0..3 : StoredColour(At(palettes', p), i) = c})
    ]_vars

\* C8 as stated: the second block's tile being the horizontal mirror of the
\* first block's tile T (the table then holding T alone), tile_in_list
\* returns index 0 with hflip set and vflip clear, and appends nothing.
C8_MirrorOfOnlyEntry ==
  (/\ pc = "pass2"
   /\ Processed = 2
   /\ cur_data = TileMirrorH(TileEntry(tile_data, 0)))
     => (/\ t.data_idx = 0 /\ t.hflip /\ ~t.vflip
         /\ n_tiles = 1 /\ Len(tile_data) = 1)

\* C8 amended: the same for every T that differs from its own horizontal
\* mirror; for a T equal to its horizontal mirror the exact match comes
\* first, so the index is 0 with both flags clear, and nothing is appended.
C8_MirrorOfOnlyEntryAmended ==
  (/\ pc = "pass2"
   /\ Processed = 2
   /\ cur_data = TileMirrorH(TileEntry(tile_data, 0)))
     => (/\ t.data_idx = 0 /\ ~t.vflip
         /\ t.hflip = (cur_data # TileEntry(tile_data, 0))
         /\ n_tiles = 1 /\ Len(tile_data) = 1)

\* C8's case: the second block's tile is the horizontal mirror of the first
\* block's tile and differs from it.
C8_Witness ==
  /\ pc = "pass2"
  /\ Processed = 2
  /\ cur_data = TileMirrorH(TileEntry(tile_data, 0))
  /\ cur_data # TileEntry(tile_data, 0)

\* C9: a call of palette_in_list changes the colours and the colour count
\* of no slot but the one it returns, and of no slot when it returns -1.
C9_OnlyReturnedSlotChanges ==
  [][(pc = "pass1" /\ pc' = "pass1") =>
       \A i \in 0..(MAX_PALETTES - 1) :
          i # p_idx' =>
             /\ At(palettes', i) = At(palettes, i)
             /\ At(used_colours_in_palettes', i) = At(used_colours_in_palettes, i)
    ]_vars

\* C10: when the candidate matches none of the n_tiles entries under any of
\* the four relations, and n_tiles < 1024, it is stored at position n_tiles,
\* the block's map cell gets index n_tiles, and n_tiles grows by one.
C10_NewTileAppendedAtCount ==
  [][(/\ pc = "pass2" /\ pc' = "pass2"
      /\ n_tiles < MAX_TILES
      /\ \A m \in {MirrorClass(cur_data')} :
            \A i \in 0..(n_tiles - 1) : TileEntry(tile_data, i) \notin m)
       => (/\ TileEntry(tile_data', n_tiles) = cur_data'
           /\ TileCell(tiles', (32 * ty) + tx).data_idx = n_tiles
           /\ n_tiles' = n_tiles + 1)
    ]_vars

====
